---- MODULE Spec2Model ----
(***************************************************************************)
(* Model of the gpt-oss-eval demos.                                        *)
(*                                                                         *)
(*   - the Chainlit chat apps app.py, app2.py and app3.py: the session     *)
(*     store (cl.user_session), on_chat_start, on_message with its await   *)
(*     points, on_settings_update and on_chat_resume;                      *)
(*   - the command-line agents search_agent_duckduckgo.py,                 *)
(*     search_agent_tavily.py, search_agent_tavily_invoke.py and           *)
(*     weather_agent_demo.py: the read/eval loop around a prebuilt         *)
(*     tool-calling agent.                                                 *)
(*                                                                         *)
(* One behaviour is one run of one program (variable program).  The model  *)
(* provider, the user and the scheduler of the event loop are the          *)
(* environment: their choices are drawn with \E from the sets below.       *)
(***************************************************************************)
EXTENDS Integers, Sequences, FiniteSets, TLC

VARIABLES
    program,        \* the demo that is running
    api_key,        \* TRUE iff os.getenv("GROQ_API_KEY") is set
    lifecycle,      \* "new" before on_chat_start / on_chat_resume, then "live"
    user_session,   \* cl.user_session: the per-session key/value store
    handlers,       \* the on_message coroutines of the session, by slot
    notice,         \* last message a lifecycle handler sent to the user
    groq,           \* what was done with the ChatGroq model, for the claims
    uncaught,       \* handlers an exception escaped from
    loop_pc,        \* position of an agent program's read/eval loop
    graph,          \* the run of the prebuilt agent graph for the current turn
    printed,        \* what the current turn has printed for the user
    demo_idx,       \* demo_weather_agent: queries already taken from demo_queries
    peer_session,   \* cl.user_session of a second session of the same chat app
    weather,        \* what the last call of the get_weather tool returned
    search,         \* what the last call of the duckduckgo_search tool returned
    forecast        \* what the last call of the get_weather_forecast tool returned

chat_vars == <<lifecycle, user_session, handlers, notice, groq>>
agent_vars == <<loop_pc, graph, printed, demo_idx>>
vars == <<program, api_key, uncaught, lifecycle, user_session, handlers, notice, groq,
          loop_pc, graph, printed, demo_idx, peer_session, weather, search, forecast>>

----------------------------------------------------------------------------
(* Bounds of the model and the sets the environment draws from.            *)

\* stored (human, ai) pairs after which no further message is submitted
MaxPairs == 1
\* the same bound for the long sequential runs of LongSpec
LongPairs == 12
\* tool calls in one model message, at most
MaxToolCalls == 2
\* the same, in the runs checked for termination
FairToolCalls == 1
\* values taken from the range of a random.randint, its two ends among them
RandSamples == 3
\* records in one list the search provider yields, at most
MaxReturned == 2

ChatApps == {"app", "app2", "app3"}
SearchAgents == {"search_duckduckgo", "search_tavily", "search_tavily_invoke"}
\* weather_agent_demo.py: no argument, "demo", "verbose"
WeatherAgents == {"weather", "weather_demo", "weather_verbose"}
AgentPrograms == SearchAgents \cup WeatherAgents
HistoryApps == {"app2", "app3"}

Handlers == {1, 2}
LongHandlers == {1}

\* the texts a user submits
Questions == {"q1", "q2"}
\* the responses a provider streams, each as its sequence of fragments
Streams == {<<>>, <<"Hi">>, <<"Hello", " world">>}
LongStreams == {<<"ok">>}

IsPrefix(xs, ys) == Len(xs) <= Len(ys) /\ xs = SubSeq(ys, 1, Len(xs))

----------------------------------------------------------------------------
(* Program constants.                                                      *)

\* history_view[-20:] and MessagesPlaceholder(n_messages=20)
N_MESSAGES == 20

SUPPORTED_MODELS ==
    {"openai/gpt-oss-20b", "openai/gpt-oss-120b",
     "meta-llama/llama-4-maverick-17b-128e-instruct",
     "meta-llama/llama-4-scout-17b-16e-instruct",
     "moonshotai/kimi-k2-instruct", "qwen/qwen3-32b"}

\* Select(..., initial_index=...) of the three settings widgets
InitialSettings ==
    [model |-> "openai/gpt-oss-20b", temp |-> "0.7", reasoning |-> "medium"]

NoSettings == [model |-> "", temp |-> "", reasoning |-> ""]

\* float() of the temperature strings, in tenths
float(s) ==
    CASE s = "0.0" -> 0
      [] s = "0.3" -> 3
      [] s = "0.5" -> 5
      [] s = "0.7" -> 7
      [] s = "1.0" -> 10

----------------------------------------------------------------------------
(* Python list helpers.                                                    *)

Min(a, b) == IF a <= b THEN a ELSE b
Max(a, b) == IF a >= b THEN a ELSE b

\* xs[:n], the slice from the wrong end
FirstN(xs, n) == SubSeq(xs, 1, Min(n, Len(xs)))

\* xs[-(n-1):], the slice one entry short
LastNShort(xs, n) == SubSeq(xs, Max(1, Len(xs) - n + 2), Len(xs))

\* xs[-n:] for n > 0
LastN(xs, n) == SubSeq(xs, Max(1, Len(xs) - n + 1), Len(xs))

----------------------------------------------------------------------------
(* The session store and the model pipeline.                               *)

\* sub in xs, for strings
Contains(sub, xs) ==
    \E i \in 0..(Len(xs) - Len(sub)) : SubSeq(xs, i + 1, i + Len(sub)) = sub

\* a model identifier as the sequence of its characters
chars(selected_model) ==
    CASE selected_model = "openai/gpt-oss-20b" ->
          <<"o", "p", "e", "n", "a", "i", "/", "g", "p", "t", "-", "o",
          "s", "s", "-", "2", "0", "b">>
      [] selected_model = "openai/gpt-oss-120b" ->
          <<"o", "p", "e", "n", "a", "i", "/", "g", "p", "t", "-", "o",
          "s", "s", "-", "1", "2", "0", "b">>
      [] selected_model = "meta-llama/llama-4-maverick-17b-128e-instruct" ->
          <<"m", "e", "t", "a", "-", "l", "l", "a", "m", "a", "/", "l",
          "l", "a", "m", "a", "-", "4", "-", "m", "a", "v", "e", "r", "i",
          "c", "k", "-", "1", "7", "b", "-", "1", "2", "8", "e", "-", "i",
          "n", "s", "t", "r", "u", "c", "t">>
      [] selected_model = "meta-llama/llama-4-scout-17b-16e-instruct" ->
          <<"m", "e", "t", "a", "-", "l", "l", "a", "m", "a", "/", "l",
          "l", "a", "m", "a", "-", "4", "-", "s", "c", "o", "u", "t", "-",
          "1", "7", "b", "-", "1", "6", "e", "-", "i", "n", "s", "t", "r",
          "u", "c", "t">>
      [] selected_model = "moonshotai/kimi-k2-instruct" ->
          <<"m", "o", "o", "n", "s", "h", "o", "t", "a", "i", "/", "k",
          "i", "m", "i", "-", "k", "2", "-", "i", "n", "s", "t", "r", "u",
          "c", "t">>
      [] selected_model = "qwen/qwen3-32b" ->
          <<"q", "w", "e", "n", "/", "q", "w", "e", "n", "3", "-", "3",
          "2", "b">>
      [] selected_model = "llama3-70b-8192" ->
          <<"l", "l", "a", "m", "a", "3", "-", "7", "0", "b", "-", "8",
          "1", "9", "2">>
      [] selected_model = "mixtral-8x7b-32768" ->
          <<"m", "i", "x", "t", "r", "a", "l", "-", "8", "x", "7", "b",
          "-", "3", "2", "7", "6", "8">>
      [] OTHER -> <<>>

\* a create_runnable that knows no family
family_else(selected_model) == "else"

\* the branch of the if/elif chain of substring tests on selected_model
family(selected_model) ==
    LET name == chars(selected_model)
    IN  IF Contains(<<"l", "l", "a", "m", "a">>, name) THEN "llama"
        ELSE IF Contains(<<"g", "p", "t", "-", "o", "s", "s">>, name) THEN "gpt-oss"
        ELSE IF Contains(<<"k", "i", "m", "i">>, name) THEN "kimi"
        ELSE IF Contains(<<"q", "w", "e", "n">>, name) THEN "qwen"
        ELSE "else"

\* SUPPORTED_MODELS[selected_model]: the friendly name, with its "(by ...)"
friendly_name(selected_model) ==
    CASE selected_model = "openai/gpt-oss-20b" -> [name |-> "GPT-OSS 20B", by |-> "OpenAI"]
      [] selected_model = "openai/gpt-oss-120b" ->
           [name |-> "GPT-OSS 120B", by |-> "OpenAI"]
      [] selected_model = "meta-llama/llama-4-maverick-17b-128e-instruct" ->
           [name |-> "LLaMA 4 Maverick 17B", by |-> "Meta AI"]
      [] selected_model = "meta-llama/llama-4-scout-17b-16e-instruct" ->
           [name |-> "LLaMA 4 Scout 17B", by |-> "Meta AI"]
      [] selected_model = "moonshotai/kimi-k2-instruct" ->
           [name |-> "Kimi K2 Instruct", by |-> "Moonshot AI"]
      [] selected_model = "qwen/qwen3-32b" ->
           [name |-> "Qwen 3 32B", by |-> "Alibaba Group"]

\* the vendor the template of a branch names ("" in the else branch)
template_vendor(template) ==
    CASE template = "llama" -> "Meta AI"
      [] template = "gpt-oss" -> "OpenAI"
      [] template = "kimi" -> "Moonshot AI"
      [] template = "qwen" -> "Alibaba Group"
      [] OTHER -> ""

\* base_prompt: the template of the family with the model's display name (the
\* bare name in the else branch) and the reasoning level filled in
base_prompt(selected_model, reasoning_level) ==
    LET template == family(selected_model)
    IN  [template |-> template, model |-> selected_model,
         reasoning |-> reasoning_level,
         powered_by |-> IF template = "else" THEN [name |-> selected_model, by |-> ""]
                        ELSE friendly_name(selected_model),
         vendor |-> template_vendor(template)]

\* a lookup that knows no tag
trading_context_generic(chat_profile) == "general trading and investment assistant"

\* trading_context: the if/elif chain over chat_profile
trading_context(chat_profile) ==
    CASE chat_profile = "general_chat" -> "GENERAL AI ASSISTANT"
      [] chat_profile = "day_trader" -> "DAY TRADING"
      [] chat_profile = "swing_trader" -> "SWING TRADING"
      [] chat_profile = "long_term_investor" -> "LONG-TERM INVESTING"
      [] chat_profile = "crypto_specialist" -> "CRYPTOCURRENCY"
      [] OTHER -> "general trading and investment assistant"

\* a system prompt that mentions whether the session has a history
system_prompt_by_history(selected_model, reasoning_level, chat_profile) ==
    [base |-> base_prompt(selected_model, reasoning_level),
     context |-> IF user_session.chat_messages = <<>>
                 THEN trading_context(chat_profile) ELSE "returning user"]

\* system_prompt = base_prompt + trading_context
system_prompt(selected_model, reasoning_level, chat_profile) ==
    [base |-> base_prompt(selected_model, reasoning_level),
     context |-> trading_context(chat_profile)]

\* the system prompts of app.py (fixed) and app3.py (no trading context)
system_prompt_plain(selected_model, reasoning_level) ==
    [base |-> base_prompt(selected_model, reasoning_level), context |-> ""]

\* the system prompt of app3.py: templates for llama and gpt-oss only
system_prompt3(selected_model, reasoning_level) ==
    [base |-> [template |-> IF family(selected_model) \in {"llama", "gpt-oss"}
                            THEN family(selected_model) ELSE "else",
               model |-> selected_model, reasoning |-> reasoning_level],
     context |-> ""]

NoRunnable ==
    [built |-> FALSE, model |-> "", temperature |-> 0, reasoning_level |-> "",
     chat_profile |-> "", system_prompt |-> system_prompt_plain("", "")]

NoWelcome == [set |-> FALSE, chat_profile |-> "", model |-> "", temperature |-> 0,
              reasoning_level |-> ""]

\* a fresh cl.user_session; chat_profile is put there by the framework
\* ("" stands for None)
NewSession(profile) ==
    [runnable |-> NoRunnable, chat_messages |-> <<>>, chat_settings |-> NoSettings,
     welcome_message |-> NoWelcome, first_message |-> FALSE, current_model |-> "",
     chat_profile |-> profile]

\* prompt | ChatGroq(model, temperature, streaming=True) | StrOutputParser()
Runnable(selected_model, temperature, reasoning_level, chat_profile) ==
    [built |-> TRUE, model |-> selected_model, temperature |-> temperature,
     reasoning_level |-> reasoning_level, chat_profile |-> chat_profile,
     system_prompt |-> system_prompt(selected_model, reasoning_level, chat_profile)]

\* SUPPORTED_MODELS[selected_model] in a taken branch of create_runnable raises
\* KeyError for a name that is no key
create_runnable_raises(selected_model) ==
    family(selected_model) # "else" /\ selected_model \notin SUPPORTED_MODELS

\* create_runnable of app2.py: stores the pipeline and the model name
create_runnable(sess, selected_model, temperature, reasoning_level, chat_profile) ==
    [sess EXCEPT !.runnable = Runnable(selected_model, temperature,
                                       reasoning_level, chat_profile),
                 !.current_model = selected_model]

\* create_runnable of app3.py: stores the pipeline only, there is no profile
create_runnable3(sess, selected_model, temperature, reasoning_level) ==
    [sess EXCEPT !.runnable =
        [Runnable(selected_model, temperature, reasoning_level, "")
            EXCEPT !.system_prompt = system_prompt3(selected_model, reasoning_level)]]

\* the f-string of the welcome message, by the values it interpolates
welcome_msg(chat_profile, settings) ==
    [set |-> TRUE, chat_profile |-> chat_profile, model |-> settings.model,
     temperature |-> float(settings.temp), reasoning_level |-> settings.reasoning]

----------------------------------------------------------------------------
(* on_chat_start                                                           *)

\* app.py: the key is checked, then the fixed model is built
on_chat_start_app ==
    /\ program = "app"
    /\ lifecycle = "new"
    /\ lifecycle' = "live"
    /\ IF ~api_key
       THEN /\ notice' = "config_error"
            /\ UNCHANGED <<user_session, groq>>
       ELSE /\ user_session' =
                 [user_session EXCEPT
                    !.runnable =
                      [Runnable("openai/gpt-oss-20b", 7, "", "")
                         EXCEPT !.system_prompt = system_prompt_plain("openai/gpt-oss-20b", "")]]
            /\ groq' = [groq EXCEPT !.attempted = TRUE, !.constructed = TRUE]
            /\ UNCHANGED notice
    /\ UNCHANGED <<program, api_key, peer_session, weather, search, forecast, handlers, uncaught, agent_vars>>

\* what on_chat_start of app2.py stores, after its key check
chat_start2(sess) ==
    LET settings == InitialSettings
        s1 == [sess EXCEPT !.chat_settings = settings, !.chat_messages = <<>>]
        s2 == create_runnable(s1, settings.model, float(settings.temp),
                              settings.reasoning, sess.chat_profile)
    IN  [s2 EXCEPT !.welcome_message = welcome_msg(sess.chat_profile, settings),
                   !.first_message = TRUE]

\* what on_chat_start of app3.py stores before it builds the pipeline
chat_start3_settings(sess) ==
    [sess EXCEPT !.chat_settings = InitialSettings, !.chat_messages = <<>>]

\* what on_chat_start of app3.py stores when the pipeline was built
chat_start3(sess) ==
    create_runnable3(chat_start3_settings(sess), InitialSettings.model,
                     float(InitialSettings.temp), InitialSettings.reasoning)

\* app2.py: key check, settings panel, history, pipeline, deferred welcome
on_chat_start_app2 ==
    /\ program = "app2"
    /\ lifecycle = "new"
    /\ lifecycle' = "live"
    /\ IF ~api_key
       THEN /\ notice' = "config_error"
            /\ UNCHANGED <<user_session, groq>>
       ELSE /\ user_session' = chat_start2(user_session)
            /\ groq' = [groq EXCEPT !.attempted = TRUE, !.constructed = TRUE]
            /\ UNCHANGED notice
    /\ UNCHANGED <<program, api_key, peer_session, weather, search, forecast, handlers, uncaught, agent_vars>>

\* app3.py: no key check.  ChatGroq(api_key=None) either raises, and the
\* exception leaves on_chat_start after the settings and the empty history were
\* stored, or it builds a model without a credential.
on_chat_start_app3 ==
    /\ program = "app3"
    /\ lifecycle = "new"
    /\ lifecycle' = "live"
    /\ \E raises \in IF api_key THEN {FALSE} ELSE BOOLEAN :
          /\ groq' = [groq EXCEPT !.attempted = TRUE,
                                  !.constructed = @ \/ ~raises]
          /\ IF raises
             THEN /\ user_session' = chat_start3_settings(user_session)
                  /\ uncaught' = uncaught \cup {"on_chat_start"}
                  /\ notice' = "exception"
             ELSE /\ user_session' = chat_start3(user_session)
                  /\ UNCHANGED <<uncaught, notice>>
    /\ UNCHANGED <<program, api_key, peer_session, weather, search, forecast, handlers, agent_vars>>

----------------------------------------------------------------------------
(* on_message.  The coroutine is suspended at its awaits: the send of the  *)
(* welcome message, every fragment of the stream, and the send of the      *)
(* finished response.  Between two awaits it runs without interruption.    *)

\* the slot after its coroutine returned: the locals are gone, what the user
\* was shown and how the turn ended stay on record
returned(m, shown, outcome) ==
    [pc |-> "idle", question |-> "", runnable |-> NoRunnable,
     history_list |-> <<>>, prompt_history |-> <<>>, content |-> "",
     received |-> <<>>, forwarded |-> <<>>,
     shown |-> shown, outcome |-> outcome, prior |-> m.prior,
     attempts |-> m.attempts]

IdleHandler ==
    [pc |-> "idle", question |-> "", runnable |-> NoRunnable,
     history_list |-> <<>>,  \* the "history" input of runnable.astream
     prompt_history |-> <<>>,\* the history messages of the prompt sent to the model
     content |-> "",         \* response_msg.content
     received |-> <<>>,      \* fragments the provider has produced, in order
     forwarded |-> <<>>,     \* fragments sent to the user, in order
     shown |-> {},           \* other messages sent to the user in this turn
     outcome |-> "none",     \* how the last turn of this slot ended
     attempts |-> 0,         \* calls of runnable.astream made for this message
     prior |-> {}]           \* slots whose stream had not ended when this turn began

human(content) == [type |-> "human", content |-> content]
ai(content) == [type |-> "ai", content |-> content]

\* [(m["type"], m["content"]) for m in history_view[-20:]]
history_slice(history_view) == LastN(history_view, N_MESSAGES)

\* MessagesPlaceholder("history", optional=True, n_messages=20)
MessagesPlaceholder(history) == LastN(history, N_MESSAGES)

\* a stream_token that replaces the content by the fragment
stream_token_replace(m, chunk) ==
    [m EXCEPT !.content = chunk, !.forwarded = Append(@, chunk)]

\* response_msg.stream_token(chunk): appended to the content, sent to the user
stream_token(m, chunk) ==
    [m EXCEPT !.content = @ \o chunk, !.forwarded = Append(@, chunk)]

\* a save that keeps the stored list within the window
save_turn_trimmed(chat_history, question, content) ==
    LastN(Append(Append(chat_history, human(question)), ai(content)), N_MESSAGES)

\* a save that puts the turn in front of the stored list
save_turn_front(chat_history, question, content) ==
    <<human(question), ai(content)>> \o chat_history

\* the two appends of a finished turn
save_turn(chat_history, question, content) ==
    Append(Append(chat_history, human(question)), ai(content))

\* response_msg = cl.Message(content=""), then the first step of astream
begin_stream(m, history_view) ==
    LET history_list == history_slice(history_view)
    IN  [m EXCEPT !.pc = "streaming",
                  !.attempts = @ + 1,
                  !.history_list = history_list,
                  !.prompt_history = IF program = "app" THEN <<>>
                                     ELSE MessagesPlaceholder(history_list)]

\* a message arrives: the lines up to the first await
on_message_entry(h, q, maxPairs) ==
    /\ program \in ChatApps
    /\ lifecycle = "live"
    /\ handlers[h].pc = "idle"
    /\ Len(user_session.chat_messages) < 2 * maxPairs
    /\ LET runnable == user_session.runnable
           m0 == [IdleHandler EXCEPT
                    !.question = q, !.runnable = runnable,
                    !.prior = {g \in DOMAIN handlers :
                                  handlers[g].pc \in {"welcome", "streaming"}}]
           \* the other slots: this slot's earlier turn is over
           others == [g \in DOMAIN handlers |->
                        [handlers[g] EXCEPT !.prior = @ \ {h}]]
       IN  IF ~runnable.built
           THEN /\ handlers' = [others EXCEPT ![h] =
                       returned(m0, {"not_initialized"}, "rejected")]
                /\ UNCHANGED <<user_session, groq>>
           ELSE IF program = "app2" /\ user_session.first_message
                   /\ user_session.welcome_message.set
           THEN \* await cl.Message(content=welcome_msg).send()
                /\ handlers' = [others EXCEPT ![h] = [m0 EXCEPT !.pc = "welcome"]]
                /\ UNCHANGED <<user_session, groq>>
           ELSE /\ handlers' = [others EXCEPT ![h] =
                       begin_stream(m0, IF program = "app" THEN <<>>
                                        ELSE user_session.chat_messages)]
                /\ user_session' =
                     IF program = "app2" /\ user_session.first_message
                     THEN [user_session EXCEPT !.first_message = FALSE]
                     ELSE user_session
                /\ groq' = [groq EXCEPT !.invoked = TRUE]
    /\ UNCHANGED <<program, api_key, peer_session, weather, search, forecast, lifecycle, notice, uncaught, agent_vars>>

\* the welcome message was sent: clear the flag, read the history, start the stream
on_message_welcomed(h) ==
    /\ handlers[h].pc = "welcome"
    /\ handlers' = [handlers EXCEPT ![h] =
           begin_stream([handlers[h] EXCEPT !.shown = @ \cup {"welcome"}],
                        user_session.chat_messages)]
    /\ user_session' = [user_session EXCEPT !.first_message = FALSE]
    /\ groq' = [groq EXCEPT !.invoked = TRUE]
    /\ UNCHANGED <<program, api_key, peer_session, weather, search, forecast, lifecycle, notice, uncaught, agent_vars>>

\* async for chunk in runnable.astream(...): one fragment arrives
astream_chunk(h, chunk, streams) ==
    /\ handlers[h].pc = "streaming"
    /\ \E st \in streams : IsPrefix(Append(handlers[h].received, chunk), st)
    /\ handlers' = [handlers EXCEPT ![h] =
           stream_token([handlers[h] EXCEPT !.received = Append(@, chunk)], chunk)]
    /\ UNCHANGED <<program, api_key, peer_session, weather, search, forecast, lifecycle, user_session, notice, groq, uncaught, agent_vars>>

\* the stream ends: await response_msg.send()
astream_end(h, streams) ==
    /\ handlers[h].pc = "streaming"
    /\ handlers[h].received \in streams
    /\ handlers' = [handlers EXCEPT ![h].pc = "sending"]
    /\ UNCHANGED <<program, api_key, peer_session, weather, search, forecast, lifecycle, user_session, notice, groq, uncaught, agent_vars>>

\* an except clause that sends nothing
except_handler_silent(m) == returned(m, m.shown, "failed")

\* an except clause that calls runnable.astream again
except_handler_retry(m) ==
    begin_stream([m EXCEPT !.content = "", !.received = <<>>, !.forwarded = <<>>],
                 m.history_list)

\* except Exception as e: the error text is sent, nothing is saved; the
\* fragments already forwarded stay on the user's screen ("partial")
except_handler(m) ==
    returned(m, m.shown \cup {"error"}
                  \cup (IF m.forwarded # <<>> THEN {"partial"} ELSE {}),
             "failed")

\* an except path that saves what was streamed so far
astream_raise_saving(h) ==
    /\ handlers[h].pc = "streaming"
    /\ handlers' = [handlers EXCEPT ![h] = except_handler(handlers[h])]
    /\ user_session' =
         [user_session EXCEPT !.chat_messages =
             save_turn(@, handlers[h].question, handlers[h].content)]
    /\ UNCHANGED <<program, api_key, peer_session, weather, search, forecast, lifecycle, notice, groq, uncaught, agent_vars>>

\* the provider raises at some point of the stream
astream_raise(h) ==
    /\ handlers[h].pc = "streaming"
    /\ handlers' = [handlers EXCEPT ![h] = except_handler(handlers[h])]
    /\ UNCHANGED <<program, api_key, peer_session, weather, search, forecast, lifecycle, user_session, notice, groq, uncaught, agent_vars>>

\* a save that writes back the list read when the turn began
on_message_save_stale(h) ==
    /\ handlers[h].pc = "sending"
    /\ handlers' = [handlers EXCEPT ![h] =
           returned(handlers[h], handlers[h].shown \cup {"final"}, "saved")]
    /\ user_session' =
         IF program \in HistoryApps
         THEN [user_session EXCEPT !.chat_messages =
                   save_turn(handlers[h].history_list, handlers[h].question,
                             handlers[h].content)]
         ELSE user_session
    /\ UNCHANGED <<program, api_key, peer_session, weather, search, forecast, lifecycle, notice, groq, uncaught, agent_vars>>

\* the response was sent: save the turn (app.py keeps no history)
on_message_save(h) ==
    /\ handlers[h].pc = "sending"
    /\ handlers' = [handlers EXCEPT ![h] =
           returned(handlers[h], handlers[h].shown \cup {"final"}, "saved")]
    /\ user_session' =
         IF program \in HistoryApps
         THEN [user_session EXCEPT !.chat_messages =
                   save_turn(@, handlers[h].question, handlers[h].content)]
         ELSE user_session
    /\ UNCHANGED <<program, api_key, peer_session, weather, search, forecast, lifecycle, notice, groq, uncaught, agent_vars>>

----------------------------------------------------------------------------
(* on_settings_update and on_chat_resume (app2.py only)                    *)

SettingsInputs ==
    {[model |-> "qwen/qwen3-32b", temp |-> "0.3", reasoning |-> "high"]}

\* an update that starts the session over, as on_chat_start does
settings_update_restart(sess, settings) ==
    LET s1 == [sess EXCEPT !.chat_settings = settings, !.chat_messages = <<>>]
        s2 == create_runnable(s1, settings.model, float(settings.temp),
                              settings.reasoning, sess.chat_profile)
    IN  [s2 EXCEPT !.welcome_message = welcome_msg(sess.chat_profile, settings),
                   !.first_message = TRUE]

\* what on_settings_update stores, after its key check
settings_update(sess, settings) ==
    LET s1 == [sess EXCEPT !.chat_settings = settings]
        s2 == create_runnable(s1, settings.model, float(settings.temp),
                              settings.reasoning, sess.chat_profile)
    IN  [s2 EXCEPT !.welcome_message = welcome_msg(sess.chat_profile, settings)]

on_settings_update(settings) ==
    /\ program = "app2"
    /\ lifecycle = "live"
    /\ IF ~api_key
       THEN /\ notice' = "config_error"
            /\ UNCHANGED <<user_session, groq>>
       ELSE /\ user_session' = settings_update(user_session, settings)
            /\ groq' = [groq EXCEPT !.attempted = TRUE, !.constructed = TRUE]
            /\ notice' = "settings_updated"
    /\ UNCHANGED <<program, api_key, peer_session, weather, search, forecast, lifecycle, handlers, uncaught, agent_vars>>

\* thread["metadata"], by the keys it has ({} also stands for no metadata)
MetadataKeys == {"model", "temperature", "reasoning_level"}

NoMetadata == [keys |-> {}, model |-> "", temperature |-> "", reasoning_level |-> ""]

\* a lookup that always takes the default
metadata_get_default(metadata, key, default) == default

\* metadata.get(key, default)
metadata_get(metadata, key, default) ==
    IF key \in metadata.keys THEN metadata[key] ELSE default

\* what on_chat_resume stores, after its key check, and whether it raises:
\* KeyError in create_runnable before anything but the empty history is
\* stored, or KeyError in the welcome-back message after the pipeline is stored
chat_resume(sess, metadata) ==
    LET selected_model == metadata_get(metadata, "model", "openai/gpt-oss-20b")
        temperature == float(metadata_get(metadata, "temperature", "0.7"))
        reasoning_level == metadata_get(metadata, "reasoning_level", "medium")
        s1 == [sess EXCEPT !.chat_messages = <<>>]
    IN  IF create_runnable_raises(selected_model)
        THEN [store |-> s1, built |-> FALSE, raised |-> TRUE]
        ELSE [store |-> create_runnable(s1, selected_model, temperature,
                                        reasoning_level, sess.chat_profile),
              built |-> TRUE,
              raised |-> selected_model \notin SUPPORTED_MODELS]

on_chat_resume(metadata) ==
    /\ program = "app2"
    /\ lifecycle = "new"
    /\ lifecycle' = "live"
    /\ IF ~api_key
       THEN /\ notice' = "config_error"
            /\ UNCHANGED <<user_session, groq, uncaught>>
       ELSE LET r == chat_resume(user_session, metadata)
            IN  /\ user_session' = r.store
                /\ groq' = [groq EXCEPT !.attempted = @ \/ r.built,
                                        !.constructed = @ \/ r.built]
                /\ notice' = IF r.raised THEN "exception" ELSE "welcome_back"
                /\ uncaught' = IF r.raised THEN uncaught \cup {"on_chat_resume"}
                               ELSE uncaught
    /\ UNCHANGED <<program, api_key, peer_session, weather, search, forecast, handlers, agent_vars>>

----------------------------------------------------------------------------
(* A second session of the same app.  Its handlers run the same code on     *)
(* their own cl.user_session; only what they store is modelled.            *)

\* a store written from the handlers of every session alike
store_set_global(sid, stores, value) == [k \in DOMAIN stores |-> value]

\* cl.user_session.set(...) in a handler of session sid: the store of sid
store_set(sid, stores, value) == [stores EXCEPT ![sid] = value]

\* a handler of the second session stores value
peer_write(value) ==
    LET stores == store_set("peer", [own |-> user_session, peer |-> peer_session], value)
    IN  /\ user_session' = stores.own
        /\ peer_session' = stores.peer
        /\ UNCHANGED <<program, api_key, lifecycle, handlers, notice, groq, uncaught,
                       agent_vars, weather, search, forecast>>

peer_on_chat_start ==
    /\ program \in HistoryApps
    /\ api_key
    /\ ~peer_session.runnable.built
    /\ peer_write(IF program = "app2" THEN chat_start2(peer_session)
                  ELSE chat_start3(peer_session))

peer_on_chat_resume(metadata) ==
    /\ program = "app2"
    /\ api_key
    /\ ~peer_session.runnable.built
    /\ peer_write(chat_resume(peer_session, metadata).store)

peer_on_settings_update(settings) ==
    /\ program = "app2"
    /\ api_key
    /\ peer_session.runnable.built
    /\ peer_write(settings_update(peer_session, settings))

\* a whole successful turn of the second session
peer_on_message(q, maxPairs) ==
    /\ program \in HistoryApps
    /\ peer_session.runnable.built
    /\ Len(peer_session.chat_messages) < 2 * maxPairs
    /\ peer_write([peer_session EXCEPT
                     !.chat_messages = save_turn(@, q, "ok"),
                     !.first_message = FALSE])

----------------------------------------------------------------------------
(* The get_weather tool of weather_agent_demo.py.  A city name is the       *)
(* sequence of its characters.                                             *)

Phoenix == <<"P", "h", "o", "e", "n", "i", "x">>
PhoenixAZ == <<"P", "h", "o", "e", "n", "i", "x", " ", "A", "Z">>
Dubai == <<"D", "U", "B", "A", "I">>
LasVegas == <<"l", "a", "s", " ", "v", "e", "g", "a", "s">>
GobiDesert == <<"G", "o", "b", "i", " ", "D", "e", "s", "e", "r", "t">>
London == <<"L", "o", "n", "d", "o", "n">>
Moscow == <<"m", "o", "s", "c", "o", "w">>
Paris == <<"P", "a", "r", "i", "s">>

Cities == {Phoenix, PhoenixAZ, Dubai, LasVegas, GobiDesert, London, Moscow, Paris}

\* a lower() that leaves the name as it is
lower_identity(city) == city

\* str.lower(), for the capitals of the names above
lower(city) ==
    [i \in DOMAIN city |->
        CASE city[i] = "A" -> "a" [] city[i] = "B" -> "b" [] city[i] = "D" -> "d"
          [] city[i] = "G" -> "g" [] city[i] = "I" -> "i" [] city[i] = "L" -> "l"
          [] city[i] = "P" -> "p" [] city[i] = "U" -> "u" [] city[i] = "Z" -> "z"
          [] OTHER -> city[i]]

\* random.randint(a, b): a value of a..b, here one of RandSamples values
\* spread over the range
randint(a, b) == {a + ((b - a) * k) \div (RandSamples - 1) : k \in 0..(RandSamples - 1)}

weather_conditions ==
    {"sunny", "partly cloudy", "cloudy", "light rain", "heavy rain", "snow", "foggy",
     "windy"}

\* the branch of the if/elif chain on city_lower
weather_branch(city) ==
    LET city_lower == lower(city)
    IN  IF Contains(<<"d", "e", "s", "e", "r", "t">>, city_lower)
           \/ city_lower \in {<<"p", "h", "o", "e", "n", "i", "x">>,
                               <<"l", "a", "s", " ", "v", "e", "g", "a", "s">>,
                               <<"d", "u", "b", "a", "i">>}
        THEN "desert"
        ELSE IF city_lower \in {<<"s", "e", "a", "t", "t", "l", "e">>,
                                <<"l", "o", "n", "d", "o", "n">>,
                                <<"v", "a", "n", "c", "o", "u", "v", "e", "r">>}
        THEN "rainy"
        ELSE IF city_lower \in {<<"m", "o", "s", "c", "o", "w">>,
                                <<"h", "e", "l", "s", "i", "n", "k", "i">>,
                                <<"a", "n", "c", "h", "o", "r", "a", "g", "e">>}
        THEN "cold"
        ELSE "baseline"

\* the f-string get_weather returns, by its parts (the time of day left out)
weather_report(city, temperature, humidity, condition, wind_speed) ==
    [called |-> TRUE, city |-> city, temperature |-> temperature,
     humidity |-> humidity, condition |-> condition, wind_speed |-> wind_speed,
     footer |-> <<"Weather", "data", "simulated", "for", "demonstration", "purposes.">>]

NoReport ==
    [called |-> FALSE, city |-> <<>>, temperature |-> 0, humidity |-> 0,
     condition |-> "", wind_speed |-> 0, footer |-> <<>>]

\* get_weather(city): the values that reach the report are drawn here; the
\* baseline draws that a branch overwrites have no effect and are left out
get_weather(city) ==
    /\ program \in WeatherAgents
    /\ LET branch == weather_branch(city)
       IN  \E wind_speed \in randint(5, 25) :
           \E temperature \in CASE branch = "desert" -> randint(25, 45)
                                 [] branch = "rainy" -> randint(5, 20)
                                 [] branch = "cold" -> randint(-20, 10)
                                 [] OTHER -> randint(-10, 35) :
           \E humidity \in CASE branch = "desert" -> randint(10, 30)
                              [] branch = "rainy" -> randint(60, 90)
                              [] OTHER -> randint(30, 90) :
           \E condition \in CASE branch = "desert" -> {"sunny", "partly cloudy", "windy"}
                               [] branch = "rainy" ->
                                    {"cloudy", "light rain", "heavy rain", "foggy"}
                               [] branch = "cold" -> {"snow", "cloudy", "foggy"}
                               [] OTHER -> weather_conditions :
              weather' = weather_report(city, temperature, humidity, condition, wind_speed)
    /\ UNCHANGED <<program, api_key, peer_session, uncaught, chat_vars, agent_vars,
                   search, forecast>>

----------------------------------------------------------------------------
(* The get_weather_forecast tool of weather_agent_demo.py.                 *)

\* the values of the days argument
DaysInputs == {-3, 0, 1, 2, 3, 6, 7, 8, 30}

\* a clamp from above only
clamp_days_above(days) == Min(days, 7)

\* days = max(1, min(days, 7))
clamp_days(days) == Max(1, Min(days, 7))

day_names == <<"Today", "Tomorrow", "Day 3", "Day 4", "Day 5", "Day 6", "Day 7">>

forecast_conditions ==
    <<"sunny", "partly cloudy", "cloudy", "light rain", "heavy rain", "snow", "foggy">>

\* str.title() on the conditions
title(condition) ==
    CASE condition = "sunny" -> "Sunny"
      [] condition = "partly cloudy" -> "Partly Cloudy"
      [] condition = "cloudy" -> "Cloudy"
      [] condition = "light rain" -> "Light Rain"
      [] condition = "heavy rain" -> "Heavy Rain"
      [] condition = "snow" -> "Snow"
      [] condition = "foggy" -> "Foggy"
      [] OTHER -> condition

\* the k-th of the values randint(a, b) is drawn from
randint_at(a, b, k) == a + ((b - a) * (k % RandSamples)) \div (RandSamples - 1)

\* the draws of the generator during one call: for each of the four values
\* of a day a position among the sampled values, moving on by one per day
ForecastDraws ==
    [high : 0..(RandSamples - 1), low : 0..(RandSamples - 1),
     condition : {0, 3}, rain : {0, 1}]

\* one pass of the loop body for day (counted from 0)
forecast_day(day, draws) ==
    LET temp_high == randint_at(15, 30, draws.high + day)
        temp_low == randint_at(5, temp_high - 5, draws.low + day)
        condition == forecast_conditions[((draws.condition + day) % 7) + 1]
        rain_chance == randint_at(0, 100, draws.rain + day)
    IN  [day_name |-> day_names[day + 1], condition |-> title(condition),
         temp_high |-> temp_high, temp_low |-> temp_low, rain_chance |-> rain_chance]

NoForecast ==
    [called |-> FALSE, city |-> <<>>, days |-> 0, header_days |-> 0, entries |-> <<>>,
     footer |-> <<>>]

\* get_weather_forecast(city, days)
get_weather_forecast(city, days, draws) ==
    /\ program \in WeatherAgents
    /\ LET clamped == clamp_days(days)
       IN  forecast' =
             [called |-> TRUE, city |-> city, days |-> days, header_days |-> clamped,
              entries |-> [d \in 1..clamped |-> forecast_day(d - 1, draws)],
              footer |-> <<"Forecast", "data", "simulated", "for", "demonstration",
                           "purposes.">>]
    /\ UNCHANGED <<program, api_key, peer_session, uncaught, chat_vars, agent_vars,
                   weather, search>>

----------------------------------------------------------------------------
(* The duckduckgo_search tool of search_agent_duckduckgo.py.  The search   *)
(* package is outside the repository: what DDGS().text yields for a query  *)
(* is the environment's choice.  A text is the sequence of its characters, *)
(* here digits.                                                            *)

\* the length above which a snippet is cut
SNIPPET_LIMIT == 200

Text(n) == [i \in 1..n |-> i % 10]

\* records the provider may yield: with a short snippet, with snippets
\* around the limit, without any of the keys, with a body of None, and a
\* record that is no dict
ShortResult ==
    [dict |-> TRUE, keys |-> {"title", "href", "body"}, title |-> "short",
     href |-> "u/short", body_none |-> FALSE, body |-> Text(3)]
LimitResult ==
    [dict |-> TRUE, keys |-> {"title", "href", "body"}, title |-> "limit",
     href |-> "u/limit", body_none |-> FALSE, body |-> Text(200)]
OverResult ==
    [dict |-> TRUE, keys |-> {"title", "href", "body"}, title |-> "over",
     href |-> "u/over", body_none |-> FALSE, body |-> Text(201)]
LongResult ==
    [dict |-> TRUE, keys |-> {"title", "href", "body"}, title |-> "long",
     href |-> "u/long", body_none |-> FALSE, body |-> Text(230)]
BareResult ==
    [dict |-> TRUE, keys |-> {}, title |-> "", href |-> "", body_none |-> FALSE,
     body |-> <<>>]
NoneBodyResult ==
    [dict |-> TRUE, keys |-> {"title", "href", "body"}, title |-> "none",
     href |-> "u/none", body_none |-> TRUE, body |-> <<>>]
NotADict ==
    [dict |-> FALSE, keys |-> {}, title |-> "", href |-> "", body_none |-> FALSE,
     body |-> <<>>]

ResultRecords ==
    {ShortResult, LimitResult, OverResult, LongResult, BareResult, NoneBodyResult,
     NotADict}

\* the values of the max_results argument, which the model chooses
MaxResultsInputs == {0, 1, 3}

\* what the body of the try block meets: the import fails, the provider
\* raises, or it yields a list of records
ProviderOutcomes(maxReturned) ==
    {[kind |-> "ImportError", results |-> <<>>],
     [kind |-> "Exception", results |-> <<>>]}
    \cup {[kind |-> "results", results |-> rs] :
             rs \in UNION {[1..k -> ResultRecords] : k \in 0..maxReturned}}

\* if len(snippet) > 200: snippet = snippet[:200] + "..."
truncate(snippet) ==
    IF Len(snippet) > SNIPPET_LIMIT
    THEN SubSeq(snippet, 1, SNIPPET_LIMIT) \o <<".", ".", ".">>
    ELSE snippet

\* the three lines formatted for result number i
format_result(i, result) ==
    [number |-> i,
     title |-> IF "title" \in result.keys THEN result.title ELSE "No title",
     url |-> IF "href" \in result.keys THEN result.href ELSE "No URL",
     description |->
        truncate(IF "body" \in result.keys THEN result.body
                 ELSE <<"No description">>)]

\* result.get on a record that is no dict, len() of a body that is None
result_raises(result) ==
    \/ ~result.dict
    \/ "body" \in result.keys /\ result.body_none

NoText == [raised |-> FALSE, kind |-> "", error |-> "", entries |-> <<>>]

\* the body of the try block: the text it returns or the exception it raises
search_try(outcome) ==
    IF outcome.kind # "results"
    THEN [NoText EXCEPT !.raised = TRUE, !.error = outcome.kind]
    ELSE IF outcome.results = <<>>
    THEN [NoText EXCEPT !.kind = "No search results found"]
    ELSE IF \E i \in DOMAIN outcome.results : result_raises(outcome.results[i])
    THEN [NoText EXCEPT !.raised = TRUE, !.error = "Exception"]
    ELSE [NoText EXCEPT !.kind = "Search results",
                        !.entries = [i \in DOMAIN outcome.results |->
                                        format_result(i, outcome.results[i])]]

\* a tool without its except clauses
search_except_none(tried) == tried

\* except ImportError / except Exception as e: the error becomes the text
search_except(tried) ==
    IF ~tried.raised THEN tried
    ELSE IF tried.error = "ImportError"
    THEN [NoText EXCEPT !.kind = "Error: ddgs package not installed",
                        !.error = tried.error]
    ELSE [NoText EXCEPT !.kind = "Search error", !.error = tried.error]

NoSearch ==
    [called |-> FALSE, max_results |-> 0,
     outcome |-> [kind |-> "", results |-> <<>>], returned |-> NoText]

\* duckduckgo_search(query, max_results): max_results goes to the provider
\* and is not used again
duckduckgo_search(max_results, outcome) ==
    /\ program = "search_duckduckgo"
    /\ search' = [called |-> TRUE, max_results |-> max_results, outcome |-> outcome,
                  returned |-> search_except(search_try(outcome))]
    /\ UNCHANGED <<program, api_key, peer_session, uncaught, chat_vars, agent_vars,
                   weather, forecast>>

----------------------------------------------------------------------------
(* The agent programs.  create_react_agent builds a graph of two nodes:    *)
(* "agent" calls the model, "tools" runs the tool calls of the model's     *)
(* last message; a run is a sequence of such steps, at most recursion_limit*)
(* of them.                                                                *)

\* "recursion_limit": 15 of the search agents
MAX_STEPS == 15
\* the limit of a run whose config names none (weather_agent_demo.py)
DEFAULT_RECURSION_LIMIT == 25
\* len(demo_queries)
N_DEMO_QUERIES == 4

\* a run that may take 40 steps
recursion_limit_large(p) == 40

\* config of the run, by program
recursion_limit(p) ==
    IF p \in SearchAgents THEN MAX_STEPS ELSE DEFAULT_RECURSION_LIMIT

\* tools=[...] handed to create_react_agent
registered_tools(p) ==
    CASE p = "search_duckduckgo" -> {"duckduckgo_search"}
      [] p \in {"search_tavily", "search_tavily_invoke"} -> {"tavily_search"}
      [] p \in WeatherAgents -> {"get_weather", "get_weather_forecast"}

\* the programs that iterate agent.stream(...); the others call agent.invoke(...)
Streaming == {"search_duckduckgo", "search_tavily", "weather_verbose"}

\* names a model may put into a tool call: the registered ones and a wrong one
ToolNames(p) == registered_tools(p) \cup {"no_such_tool"}

SeqsUpTo(S, n) == UNION {[1..k -> S] : k \in 1..n}

\* what a model call can return: tool calls, with or without a text beside
\* them, or a final text (possibly empty); texts are the further contents
\* the model may write
Responses(p, maxCalls, texts) ==
    {[tool_calls |-> tc, content |-> c] :
        tc \in SeqsUpTo(ToolNames(p), maxCalls), c \in {""} \cup texts}
    \cup {[tool_calls |-> <<>>, content |-> c] : c \in {"", "text"} \cup texts}

\* str(e) of a provider error, by the cases the handlers tell apart
Exceptions == {"503", "Failed to call a function", "other"}

NoGraph ==
    [step |-> 0, node |-> "end", tool_calls |-> <<>>, content |-> "",
     tool_msgs |-> <<>>,     \* the results of the last "tools" step
     fed_back |-> <<>>,      \* the tool results in the input of the last model call
     round_trips |-> 0,      \* "tools" steps of this run
     running |-> {},         \* tool calls of the current "tools" step being executed
     ai_content |-> FALSE,   \* some ai message of this run had a content
     truncated |-> FALSE]    \* the run was cut at the step limit

NoPrint == [agent |-> 0, answer |-> "", fallback |-> "", error |-> ""]

\* a tool node that skips the calls it has no tool for
ToolNode_ignoring(tool_calls, tools) ==
    LET known == SelectSeq(tool_calls, LAMBDA name : name \in tools)
    IN  [i \in DOMAIN known |-> [name |-> known[i], status |-> "success"]]

\* the tool node: one result per tool call, in order; a name that is not
\* registered gets an error result naming it
ToolNode(tool_calls, tools) ==
    [i \in DOMAIN tool_calls |->
        IF tool_calls[i] \in tools
        THEN [name |-> tool_calls[i], status |-> "success"]
        ELSE [name |-> tool_calls[i], status |-> "not_a_valid_tool"]]

\* the agent node gives up instead of asking for tools it has no steps left for
more_steps_needed(step, limit, response) ==
    response.tool_calls # <<>> /\ limit - step < 2

SORRY == "Sorry, need more steps to process this request."

\* str.strip(), for the contents of this module
strip(content) == IF content = " " THEN "" ELSE content

\* a loop that prints nothing at the end of a run
final_print_silent(p, pr, content) == pr

\* what the loop prints for the final message of a run
final_print(p, pr, content) ==
    CASE p \in {"search_duckduckgo", "search_tavily"} ->
            \* printed while streaming when the content is not blank; otherwise the
            \* fallback runs, and all_messages is still empty: no streamed step has
            \* a "messages" key, its keys are the node names
            IF content # "" /\ strip(content) # ""
            THEN [pr EXCEPT !.agent = @ + 1, !.answer = strip(content)]
            ELSE [pr EXCEPT !.fallback = "[No messages received]"]
      [] p = "search_tavily_invoke" ->
            IF content # ""
            THEN [pr EXCEPT !.agent = @ + 1, !.answer = content]
            ELSE [pr EXCEPT !.fallback = "[No content in final message]"]
      [] p \in {"weather", "weather_demo"} ->
            [pr EXCEPT !.agent = @ + 1, !.answer = content]
      [] p = "weather_verbose" -> pr

\* the except clauses around a run, by the line they print
except_print(p, pr, e) ==
    IF p \in {"search_tavily", "search_tavily_invoke"}
    THEN [pr EXCEPT !.error =
            CASE e = "503" -> "[ERROR] Groq service is currently unavailable."
              [] e = "Failed to call a function" -> "[ERROR] Function calling issue with Groq API."
              [] OTHER -> "[ERROR] API Error"]
    ELSE [pr EXCEPT !.error = "Error"]

\* agent = create_..._agent(): raises ValueError without the key, before the loop
create_agent ==
    /\ program \in AgentPrograms
    /\ loop_pc = "start"
    /\ IF api_key
       THEN /\ loop_pc' = "input"
            /\ UNCHANGED uncaught
       ELSE /\ loop_pc' = "crashed"
            /\ uncaught' = uncaught \cup {"create_agent"}
    /\ UNCHANGED <<program, api_key, peer_session, weather, search, forecast, chat_vars, graph, printed, demo_idx>>

start_run == [NoGraph EXCEPT !.node = "agent"]

\* user_input = input("You: ").strip(), or Ctrl-C
read_input(line) ==
    /\ program \in AgentPrograms \ {"weather_demo"}
    /\ loop_pc = "input"
    /\ CASE line \in {"quit", "KeyboardInterrupt"} ->
              /\ loop_pc' = "exited"
              /\ UNCHANGED <<graph, printed>>
         [] line = "" ->
              UNCHANGED <<loop_pc, graph, printed>>
         [] OTHER ->
              /\ loop_pc' = "running"
              /\ graph' = start_run
              /\ printed' = NoPrint
    /\ UNCHANGED <<program, api_key, peer_session, weather, search, forecast, uncaught, chat_vars, demo_idx>>

\* for query in demo_queries
demo_next ==
    /\ program = "weather_demo"
    /\ loop_pc = "input"
    /\ IF demo_idx < N_DEMO_QUERIES
       THEN /\ demo_idx' = demo_idx + 1
            /\ loop_pc' = "running"
            /\ graph' = start_run
            /\ printed' = NoPrint
       ELSE /\ loop_pc' = "exited"
            /\ UNCHANGED <<demo_idx, graph, printed>>
    /\ UNCHANGED <<program, api_key, peer_session, weather, search, forecast, uncaught, chat_vars>>

\* one "agent" step: the model answers
agent_node(maxCalls, texts) ==
    /\ loop_pc = "running"
    /\ graph.node = "agent"
    /\ \E response \in Responses(program, maxCalls, texts) :
       LET step == graph.step + 1
           cut == more_steps_needed(step, recursion_limit(program), response)
           msg == IF cut THEN [tool_calls |-> <<>>, content |-> SORRY] ELSE response
           g == [graph EXCEPT !.step = step, !.tool_calls = msg.tool_calls,
                              !.content = msg.content, !.fed_back = graph.tool_msgs,
                              !.ai_content = @ \/ msg.content # "",
                              !.truncated = cut]
       IN  IF msg.tool_calls # <<>>
           THEN /\ graph' = [g EXCEPT !.node = "tools"]
                /\ UNCHANGED <<loop_pc, printed>>
           ELSE /\ graph' = [g EXCEPT !.node = "end"]
                /\ printed' = final_print(program, printed, msg.content)
                /\ loop_pc' = "input"
    /\ UNCHANGED <<program, api_key, peer_session, weather, search, forecast, uncaught, chat_vars, demo_idx>>

\* the model call raises: the exception leaves agent.stream / agent.invoke
agent_raise(e) ==
    /\ loop_pc = "running"
    /\ graph.node = "agent"
    /\ graph' = [graph EXCEPT !.step = @ + 1, !.node = "raised"]
    /\ printed' = except_print(program, printed, e)
    /\ loop_pc' = "input"
    /\ UNCHANGED <<program, api_key, peer_session, weather, search, forecast, uncaught, chat_vars, demo_idx>>

\* the "tools" step begins: the tool node hands every tool call of the model
\* message to its executor at once
tools_dispatch ==
    /\ loop_pc = "running"
    /\ graph.node = "tools"
    /\ graph' = [graph EXCEPT !.node = "tools_running",
                              !.running = DOMAIN graph.tool_calls]
    /\ UNCHANGED <<program, api_key, peer_session, weather, search, forecast, uncaught, chat_vars, loop_pc, printed, demo_idx>>

\* the tool function of call i returns its string
tool_return(i) ==
    /\ loop_pc = "running"
    /\ graph.node = "tools_running"
    /\ i \in graph.running
    /\ graph' = [graph EXCEPT !.running = @ \ {i}]
    /\ UNCHANGED <<program, api_key, peer_session, weather, search, forecast, uncaught, chat_vars, loop_pc, printed, demo_idx>>

\* the "tools" step ends: the results of all calls are added to the messages
tools_node ==
    /\ loop_pc = "running"
    /\ graph.node = "tools_running"
    /\ graph.running = {}
    /\ graph' = [graph EXCEPT
                   !.step = @ + 1, !.node = "agent",
                   !.tool_msgs = ToolNode(graph.tool_calls, registered_tools(program)),
                   !.round_trips = @ + 1]
    /\ UNCHANGED <<program, api_key, peer_session, weather, search, forecast, uncaught, chat_vars, loop_pc, printed, demo_idx>>

----------------------------------------------------------------------------
(* Specifications                                                          *)

ProfileInputs == {"", "day_trader"}

\* the metadata of a resumed thread in Spec and LongSpec
ResumeInputs ==
    {NoMetadata,
     [keys |-> MetadataKeys, model |-> "qwen/qwen3-32b", temperature |-> "0.3",
      reasoning_level |-> "high"]}

InitFor(programs, profiles) ==
    /\ program \in programs
    /\ api_key \in BOOLEAN
    /\ uncaught = {}
    /\ lifecycle = IF program \in ChatApps THEN "new" ELSE "off"
    /\ user_session \in {NewSession(IF program = "app2" THEN pr ELSE "") : pr \in profiles}
    /\ handlers = [h \in Handlers |-> IdleHandler]
    /\ notice = ""
    /\ groq = [attempted |-> FALSE, constructed |-> FALSE, invoked |-> FALSE]
    /\ loop_pc = IF program \in AgentPrograms THEN "start" ELSE "off"
    /\ graph = NoGraph
    /\ printed = NoPrint
    /\ demo_idx = 0
    /\ peer_session = NewSession("")
    /\ weather = NoReport
    /\ search = NoSearch
    /\ forecast = NoForecast

Init == InitFor(ChatApps \cup AgentPrograms, ProfileInputs)

Fragments(streams) == UNION {{st[i] : i \in DOMAIN st} : st \in streams}

ChatNext(slots, questions, streams, maxPairs, resumes, updates) ==
    \/ on_chat_start_app2
    \/ on_chat_start_app3
    \/ \E metadata \in resumes : on_chat_resume(metadata)
    \/ \E settings \in updates : on_settings_update(settings)
    \/ \E h \in slots, q \in questions : on_message_entry(h, q, maxPairs)
    \/ \E h \in slots : on_message_welcomed(h)
    \/ \E h \in slots, chunk \in Fragments(streams) : astream_chunk(h, chunk, streams)
    \/ \E h \in slots : astream_end(h, streams)
    \/ \E h \in slots : astream_raise(h)
    \/ \E h \in slots : on_message_save(h)

AgentNext(maxCalls, texts) ==
    \/ create_agent
    \/ \E line \in {"quit", "KeyboardInterrupt", "", "text"} : read_input(line)
    \/ demo_next
    \/ agent_node(maxCalls, texts)
    \/ \E e \in Exceptions : agent_raise(e)
    \/ tools_dispatch
    \/ \E i \in 1..maxCalls : tool_return(i)
    \/ tools_node

Next ==
    \/ on_chat_start_app
    \/ ChatNext(Handlers, Questions, Streams, MaxPairs, ResumeInputs, SettingsInputs)
    \/ AgentNext(MaxToolCalls, {})

Spec == Init /\ [][Next]_vars

\* long sequential sessions of the two apps that keep a history
LongInit == InitFor(HistoryApps, {""})

LongNext == ChatNext(LongHandlers, Questions, LongStreams, LongPairs, ResumeInputs, SettingsInputs)

LongSpec == LongInit /\ [][LongNext]_vars

\* the profiles a session can have: the five of chat_profile(), none, another
AllProfiles ==
    {"general_chat", "day_trader", "swing_trader", "long_term_investor",
     "crypto_specialist", "", "scalper"}

\* resumption metadata: any of the keys, with supported and other values
ConfigResumes ==
    {[keys |-> K,
      model |-> IF "model" \in K THEN m ELSE "",
      temperature |-> IF "temperature" \in K THEN t ELSE "",
      reasoning_level |-> IF "reasoning_level" \in K THEN r ELSE ""] :
        K \in SUBSET MetadataKeys,
        m \in {"qwen/qwen3-32b", "llama3-70b-8192", "mixtral-8x7b-32768"},
        t \in {"0.3", "0.5"},
        r \in {"high", "extreme"}}

\* values of the settings panel
ConfigUpdates ==
    {[model |-> "qwen/qwen3-32b", temp |-> "0.3", reasoning |-> "high"],
     [model |-> "moonshotai/kimi-k2-instruct", temp |-> "1.0", reasoning |-> "low"],
     [model |-> "meta-llama/llama-4-scout-17b-16e-instruct", temp |-> "0.0",
      reasoning |-> "medium"]}

PeerNext(maxPairs) ==
    \/ peer_on_chat_start
    \/ \E metadata \in ResumeInputs : peer_on_chat_resume(metadata)
    \/ \E settings \in SettingsInputs : peer_on_settings_update(settings)
    \/ \E q \in Questions : peer_on_message(q, maxPairs)

\* the apps with settings and history: every profile, resumption metadata and
\* settings change, one message at a time, beside a second session
ConfigInit == InitFor(HistoryApps, AllProfiles)

ConfigNext ==
    \/ ChatNext(LongHandlers, {"q1"}, LongStreams, MaxPairs, ConfigResumes, ConfigUpdates)
    \/ PeerNext(MaxPairs)

ConfigSpec == ConfigInit /\ [][ConfigNext]_vars

\* the weather tool alone, called with one city after another
WeatherInit == InitFor({"weather"}, {""})

WeatherNext == \E city \in Cities : get_weather(city)

WeatherSpec == WeatherInit /\ [][WeatherNext]_vars

\* app2.py with the settings panel alone: every supported model, temperature
\* and reasoning level
FamilyUpdates ==
    [model : SUPPORTED_MODELS, temp : {"0.0", "0.3", "0.7", "1.0"},
     reasoning : {"low", "medium", "high"}]

FamilyInit == InitFor({"app2"}, AllProfiles)

FamilyNext ==
    \/ on_chat_start_app2
    \/ \E settings \in FamilyUpdates : on_settings_update(settings)

FamilySpec == FamilyInit /\ [][FamilyNext]_vars

\* the forecast tool alone
ForecastNext ==
    \E days \in DaysInputs : \E draws \in ForecastDraws :
        get_weather_forecast(Paris, days, draws)

ForecastSpec == WeatherInit /\ [][ForecastNext]_vars

\* the search tool alone, called with one provider outcome after another
SearchInit == InitFor({"search_duckduckgo"}, {""})

SearchNext ==
    \E max_results \in MaxResultsInputs : \E outcome \in ProviderOutcomes(MaxReturned) :
        duckduckgo_search(max_results, outcome)

SearchSpec == SearchInit /\ [][SearchNext]_vars

\* the two search agents that iterate agent.stream, with a model that may
\* write a note beside its tool calls and a blank answer
StreamTexts == {"note", " "}

StreamInit == InitFor({"search_duckduckgo", "search_tavily"}, {""})

StreamNext ==
    \/ create_agent
    \/ \E line \in {"quit", "KeyboardInterrupt", "", "text"} : read_input(line)
    \/ agent_node(FairToolCalls, StreamTexts)
    \/ \E e \in Exceptions : agent_raise(e)
    \/ tools_dispatch
    \/ \E i \in 1..FairToolCalls : tool_return(i)
    \/ tools_node

StreamSpec == StreamInit /\ [][StreamNext]_vars

\* the agent programs alone; a started step of the graph is carried out
AgentInit == InitFor(AgentPrograms, {""})

AgentFairSpec ==
    /\ AgentInit
    /\ [][AgentNext(FairToolCalls, {})]_vars
    /\ WF_vars(agent_node(FairToolCalls, {}))
    /\ WF_vars(tools_dispatch)
    /\ WF_vars(\E i \in 1..FairToolCalls : tool_return(i))
    /\ WF_vars(tools_node)

----------------------------------------------------------------------------
(* Claims about the history window (LongSpec)                              *)

InTurn(h) == handlers[h].pc \in {"streaming", "sending"}

\* C1: in app2.py and app3.py, on every turn the history put into the prompt
\* has at most 20 messages, and they are the last messages of the stored
\* history, in order (the oldest are dropped first).
C1_PromptHistoryIsRecentWindow ==
    \A h \in LongHandlers :
        InTurn(h) =>
            LET stored == user_session.chat_messages
                sent == handlers[h].prompt_history
                drop == Len(stored) - Len(sent)
            IN  /\ Len(sent) <= 20
                /\ Len(sent) = Min(20, Len(stored))
                /\ \A i \in 1..Len(sent) : sent[i] = stored[drop + i]

\* a turn whose stored history is longer than the window
C1_Witness ==
    /\ handlers[1].pc = "streaming"
    /\ Len(user_session.chat_messages) = 22
    /\ Len(handlers[1].prompt_history) = 20
    /\ handlers[1].prompt_history[1] # user_session.chat_messages[1]

\* C2: the history put into the prompt is empty or starts with a human message
\* and alternates human, ai in complete pairs, whatever turns succeeded or
\* failed before.
C2_WindowKeepsPairs ==
    \A h \in LongHandlers :
        InTurn(h) =>
            LET sent == handlers[h].prompt_history
            IN  /\ Len(sent) % 2 = 0
                /\ \A i \in 1..Len(sent) :
                      sent[i].type = IF i % 2 = 1 THEN "human" ELSE "ai"

\* a truncated window, in a turn whose stream has ended
C2_Witness ==
    /\ handlers[1].pc = "sending"
    /\ Len(user_session.chat_messages) > 20
    /\ Len(handlers[1].prompt_history) = 20
    /\ handlers[1].prompt_history[1].type = "human"

\* C3 as stated: the stored history never has more than 20 entries.
C3_StoredWithinWindow == Len(user_session.chat_messages) <= 20

\* one step of the stored history: untouched, or two entries longer with the
\* old list as its prefix, or emptied by on_chat_start / on_chat_resume
StoredStep ==
    LET old == user_session.chat_messages
        new == user_session'.chat_messages
    IN  \/ new = old
        \/ Len(new) = Len(old) + 2 /\ SubSeq(new, 1, Len(old)) = old
        \/ lifecycle = "new" /\ new = <<>>

\* C3, amended: the stored history is never trimmed, it grows by the two
\* entries of every successful turn and is not bounded by the window; the
\* window of 20 bounds the history_list that a turn reads from it.
C3_StoredNeverTrimmed ==
    /\ [][StoredStep]_vars
    /\ [](\A h \in LongHandlers : Len(handlers[h].history_list) <= 20)

\* a stored history longer than the window
C3_Witness ==
    /\ Len(user_session.chat_messages) = 22
    /\ handlers[1].outcome = "saved"

----------------------------------------------------------------------------
(* Claims about one turn of a chat app (Spec)                              *)

RECURSIVE Concat(_)
\* "".join(fragments)
Concat(fragments) ==
    IF fragments = <<>> THEN ""
    ELSE Head(fragments) \o Concat(Tail(fragments))

\* the step in which slot h saves its turn
Saves(h) == handlers[h].pc = "sending" /\ handlers'[h].pc = "idle"

\* C4: in a streaming turn the fragments reach the user one by one in the
\* order of their arrival, and when the turn succeeds exactly two entries are
\* appended to the history: the human message of the turn, directly followed
\* by one ai message whose content is the concatenation of the fragments.
C4_StreamCommitsConcatenation ==
    /\ [](\A h \in Handlers :
            InTurn(h) => /\ handlers[h].forwarded = handlers[h].received
                         /\ handlers[h].content = Concat(handlers[h].received))
    /\ [][\A h \in Handlers :
            (Saves(h) /\ program \in HistoryApps) =>
                user_session'.chat_messages =
                    user_session.chat_messages \o
                        <<human(handlers[h].question),
                          ai(Concat(handlers[h].received))>>]_vars

\* the turn of the scenario: "Hello", " world" was streamed and saved
C4_Witness ==
    /\ program \in HistoryApps
    /\ handlers[1].outcome = "saved"
    /\ Len(user_session.chat_messages) = 2
    /\ user_session.chat_messages[1] = human("q1")
    /\ user_session.chat_messages[2] = ai("Hello world")

----------------------------------------------------------------------------
(* Claims about one run of an agent (Spec, AgentFairSpec)                  *)

PrintsFinal == AgentPrograms \ {"weather_verbose"}

C9_UnknownToolAnswered ==
    /\ (program \in AgentPrograms /\ graph.node = "agent" /\ graph.round_trips > 0) =>
          /\ loop_pc = "running"
          /\ Len(graph.tool_msgs) = Len(graph.tool_calls)
          /\ \A i \in DOMAIN graph.tool_calls :
                graph.tool_calls[i] \notin registered_tools(program) =>
                    graph.tool_msgs[i] =
                        [name |-> graph.tool_calls[i], status |-> "not_a_valid_tool"]
    /\ (program \in AgentPrograms /\ graph.node \in {"tools", "tools_running", "end"}
            /\ graph.round_trips > 0) =>
          graph.fed_back = graph.tool_msgs

\* the model asked for a tool that does not exist, was told so, and answered
C9_Witness ==
    /\ program = "weather"
    /\ graph.node = "end"
    /\ graph.round_trips = 1
    /\ graph.fed_back = <<[name |-> "no_such_tool", status |-> "not_a_valid_tool"]>>
    /\ printed.answer = "text"

----------------------------------------------------------------------------
(* Claims about overlapping turns, a missing key and failing turns (Spec)  *)

\* C7: when a message arrives while the stream of an earlier turn has not
\* ended, the earlier turn is dropped: it is never saved to the history.
C7_PriorTurnDiscarded ==
    program \in HistoryApps =>
        \A g \in Handlers : \A h \in handlers[g].prior :
            handlers[h].outcome # "saved"

\* C8: a chat app started without GROQ_API_KEY builds and calls no model,
\* sends its configuration error, stores no runnable, and answers every later
\* message with "Session not initialized".
C8_MissingKeyLeavesSessionUninitialized ==
    (program \in ChatApps /\ ~api_key /\ lifecycle = "live") =>
        /\ ~groq.attempted
        /\ ~groq.constructed
        /\ ~groq.invoked
        /\ notice = "config_error"
        /\ ~user_session.runnable.built
        /\ \A h \in Handlers :
              /\ handlers[h].pc = "idle"
              /\ handlers[h].outcome \in {"none", "rejected"}
              /\ handlers[h].outcome = "rejected" =>
                    handlers[h].shown = {"not_initialized"}

\* C10: an exception in a turn is caught where the turn is handled and the
\* user is shown an error; the session goes on.  In a chat app the failed
\* turn has returned with the error message sent, nothing of it is saved, the
\* session is live and keeps its runnable; in an agent program the loop has
\* printed the error and is back at its input (or was left from there).
C10_TurnErrorsCaught ==
    /\ \A h \in Handlers :
          handlers[h].outcome = "failed" =>
              /\ handlers[h].pc = "idle"
              /\ "error" \in handlers[h].shown
              /\ "final" \notin handlers[h].shown
              /\ lifecycle = "live"
              /\ user_session.runnable.built
    /\ (program \in AgentPrograms /\ graph.node = "raised") =>
          /\ printed.error # ""
          /\ loop_pc \in {"input", "exited"}

\* a turn failed in the middle of its stream and the turn after it is served
C10_Witness ==
    /\ program = "app2"
    /\ handlers[1].outcome = "failed"
    /\ handlers[1].shown = {"welcome", "error"}
    /\ handlers[2].pc = "sending"
    /\ handlers[2].prior = {}
    /\ handlers[2].content = "Hello world"

----------------------------------------------------------------------------
(* Claims about retries (Spec)                                             *)

\* C11: nothing is retried.  A chat handler calls runnable.astream at most
\* once for a message, and a failed turn has returned after its one call; an
\* agent loop whose run raised calls the agent again only for the next line
\* read at its prompt (the next query of the demo), with a fresh run.
C11_NoAutomaticRetry ==
    /\ [](\A h \in Handlers :
            /\ handlers[h].attempts <= 1
            /\ handlers[h].outcome = "failed" =>
                  handlers[h].pc = "idle" /\ handlers[h].attempts = 1)
    /\ [][(graph.node = "raised" /\ graph'.node # "raised") =>
            /\ loop_pc = "input"
            /\ graph' = start_run
            /\ program = "weather_demo" => demo_idx' = demo_idx + 1]_vars

\* a turn failed after its first fragment and was left at that
C11_Witness ==
    /\ program = "app"
    /\ handlers[1].outcome = "failed"
    /\ handlers[1].attempts = 1
    /\ handlers[1].shown = {"error"}
    /\ handlers[2].outcome = "none"
    /\ handlers[2].pc = "idle"

----------------------------------------------------------------------------
(* Claims about the tools of a run (Spec)                                  *)

----------------------------------------------------------------------------
(* Claims about sessions, settings and personas (ConfigSpec)               *)

\* C13: no step changes the stores of both sessions: what a handler of one
\* session stores (history, settings, pipeline) leaves the store of the other
\* session as it was, and a step of the second session leaves the handlers
\* of the first where they were.
C13_SessionsIsolated ==
    [][/\ peer_session' # peer_session =>
            user_session' = user_session /\ handlers' = handlers
       /\ user_session' # user_session => peer_session' = peer_session]_vars

\* both sessions have a turn in their history and different settings
C13_Witness ==
    /\ program = "app2"
    /\ Len(user_session.chat_messages) = 2
    /\ Len(peer_session.chat_messages) = 2
    /\ user_session.runnable.model = "moonshotai/kimi-k2-instruct"
    /\ peer_session.runnable.model = "qwen/qwen3-32b"

----------------------------------------------------------------------------
(* Claims about the stored history (Spec)                                  *)

\* C14: once a session of app2.py or app3.py has started (or resumed), every
\* step leaves the stored history as it is or appends to it the human and the
\* ai entry of the one turn that is saved in that step, so the history is the
\* list of the saved turns in the order they completed and nothing in it is
\* edited, removed or moved.
C14_HistoryAppendOnly ==
    [][(program \in HistoryApps /\ lifecycle = "live") =>
         LET old == user_session.chat_messages
             new == user_session'.chat_messages
             saving == {h \in Handlers : Saves(h)}
         IN  IF saving = {}
             THEN new = old
             ELSE \E h \in saving :
                    /\ saving = {h}
                    /\ Len(new) = Len(old) + 2
                    /\ SubSeq(new, 1, Len(old)) = old
                    /\ new[Len(old) + 1] = human(handlers[h].question)
                    /\ new[Len(old) + 2] = ai(handlers[h].content)]_vars

\* two overlapping turns were saved, the later message first
C14_Witness ==
    /\ program \in HistoryApps
    /\ handlers[1].prior = {} /\ handlers[1].outcome = "saved"
    /\ handlers[2].prior = {1} /\ handlers[2].outcome = "saved"
    /\ Len(user_session.chat_messages) = 4
    /\ user_session.chat_messages[1] = human("q2")
    /\ user_session.chat_messages[3] = human("q1")

----------------------------------------------------------------------------
(* Claims about the settings of app2.py (ConfigSpec)                       *)

\* C15: whenever a session of app2.py has a pipeline, its model is one of the
\* SUPPORTED_MODELS, its temperature one of 0.0, 0.3, 0.7, 1.0 and its
\* reasoning level one of low, medium, high.
C15_SettingsInEnumeratedSets ==
    (program = "app2" /\ user_session.runnable.built) =>
        /\ user_session.runnable.model \in SUPPORTED_MODELS
        /\ user_session.runnable.temperature \in {0, 3, 7, 10}
        /\ user_session.runnable.reasoning_level \in {"low", "medium", "high"}

\* C16: on_chat_resume takes each of model, temperature and reasoning level
\* from the thread's metadata when the key is there and its default
\* (openai/gpt-oss-20b, 0.7, medium) otherwise; it builds a pipeline unless
\* the key is missing or the model name has no display name to fill into its
\* prompt, and the pipeline it builds has exactly these three values.
C16_ResumeRestoresSettings ==
    [][\A md \in ConfigResumes :
         on_chat_resume(md) =>
            LET model == IF "model" \in md.keys THEN md.model ELSE "openai/gpt-oss-20b"
                temperature == IF "temperature" \in md.keys
                               THEN float(md.temperature) ELSE 7
                reasoning == IF "reasoning_level" \in md.keys
                             THEN md.reasoning_level ELSE "medium"
                built == user_session'.runnable.built
            IN  /\ built <=> (api_key /\ model # "llama3-70b-8192")
                /\ built =>
                     /\ user_session'.runnable.model = model
                     /\ user_session'.runnable.temperature = temperature
                     /\ user_session'.runnable.reasoning_level = reasoning
                     /\ user_session'.current_model = model]_vars

\* resumed from metadata that has a model and a reasoning level but no temperature
C16_Witness ==
    /\ program = "app2"
    /\ notice = "welcome_back"
    /\ user_session.runnable.model = "qwen/qwen3-32b"
    /\ user_session.runnable.temperature = 7
    /\ user_session.runnable.reasoning_level = "high"
    /\ user_session.chat_settings = NoSettings

\* C17: the persona text of a pipeline of app2.py is the one of the session's
\* profile tag for the five known tags and the generic one for every other
\* tag and for no tag, whichever handler built the pipeline; the only
\* exception a handler of app2.py raises is for a model name in resumption
\* metadata, never for a tag.
C17_PersonaByTag ==
    /\ [](program = "app2" /\ user_session.runnable.built =>
            LET tag == user_session.chat_profile
                context == user_session.runnable.system_prompt.context
            IN  /\ tag = "general_chat" => context = "GENERAL AI ASSISTANT"
                /\ tag = "day_trader" => context = "DAY TRADING"
                /\ tag = "swing_trader" => context = "SWING TRADING"
                /\ tag = "long_term_investor" => context = "LONG-TERM INVESTING"
                /\ tag = "crypto_specialist" => context = "CRYPTOCURRENCY"
                /\ tag \in {"", "scalper"} =>
                      context = "general trading and investment assistant")
    /\ [][(program = "app2" /\ uncaught' # uncaught) =>
            \E md \in ConfigResumes :
                /\ on_chat_resume(md)
                /\ "model" \in md.keys
                /\ md.model \notin SUPPORTED_MODELS]_vars

\* a session with a tag that is no profile changed its settings
C17_Witness ==
    /\ program = "app2"
    /\ user_session.chat_profile = "scalper"
    /\ notice = "settings_updated"
    /\ uncaught = {}
    /\ user_session.runnable.system_prompt.context =
          "general trading and investment assistant"

----------------------------------------------------------------------------
(* Claims about the weather tool (WeatherSpec)                             *)

\* the cities of the desert branch among the names above: "desert" in the
\* name, or phoenix, las vegas, dubai in any case
DesertCities == {Phoenix, Dubai, LasVegas, GobiDesert}

\* C19: for a city of the desert branch get_weather reports a temperature
\* from 25 to 45, a humidity from 10 to 30, and a text with the word
\* "simulated".
C19_DesertRanges ==
    (weather.called /\ weather.city \in DesertCities) =>
        /\ 25 <= weather.temperature /\ weather.temperature <= 45
        /\ 10 <= weather.humidity /\ weather.humidity <= 30
        /\ \E i \in DOMAIN weather.footer : weather.footer[i] = "simulated"

\* the hottest and driest report for "Phoenix"
C19_Witness ==
    /\ weather.called
    /\ weather.city = Phoenix
    /\ weather.temperature = 45
    /\ weather.humidity = 10

\* C20: two calls of get_weather with the same city report the same
\* temperature, humidity, conditions and wind speed.
C20_SameCitySameReport ==
    [][(weather.called /\ weather'.city = weather.city) =>
         /\ weather'.temperature = weather.temperature
         /\ weather'.humidity = weather.humidity
         /\ weather'.condition = weather.condition
         /\ weather'.wind_speed = weather.wind_speed]_vars

----------------------------------------------------------------------------
(* Claims about the search tool (SearchSpec)                               *)

\* the description line of a record with a snippet, as the claim words it
Shown(body) ==
    IF Len(body) <= 200 THEN body ELSE SubSeq(body, 1, 200) \o <<".", ".", ".">>

\* C21: the formatted text has at most max_results numbered entries, in
\* provider order, and each description is the snippet itself when it has
\* at most 200 characters and else its first 200 characters and "...".
C21_SearchOutputBounded ==
    (search.called /\ search.returned.kind = "Search results") =>
        LET results == search.outcome.results
            entries == search.returned.entries
        IN  /\ Len(entries) <= search.max_results
            /\ Len(entries) <= Len(results)
            /\ \A i \in DOMAIN entries :
                   /\ entries[i].number = i
                   /\ "title" \in results[i].keys => entries[i].title = results[i].title
                   /\ "body" \in results[i].keys =>
                         entries[i].description = Shown(results[i].body)

\* C22: whatever the provider call does, the tool returns a text and raises
\* nothing; a failure is returned as an error text.
C22_SearchNeverRaises ==
    search.called =>
        /\ ~search.returned.raised
        /\ search.returned.kind \in
              {"Search results", "No search results found", "Search error",
               "Error: ddgs package not installed"}
        /\ (\/ search.outcome.kind # "results"
            \/ \E i \in DOMAIN search.outcome.results :
                  ~search.outcome.results[i].dict)
           => search.returned.kind \in
                {"Search error", "Error: ddgs package not installed"}

\* a list whose second record is no dict comes back as "Search error"
C22_Witness ==
    /\ search.called
    /\ search.outcome.kind = "results"
    /\ Len(search.outcome.results) = 2
    /\ search.outcome.results[2] = NotADict
    /\ search.returned.kind = "Search error"

----------------------------------------------------------------------------
(* Claims about the forecast tool (ForecastSpec)                           *)

\* C24: for every integer number of days the forecast has as many entries
\* as the number clamped into 1..7, labelled in order from "Today", and in
\* every entry the low is at least 5 degrees below the high.
C24_ForecastDaysClamped ==
    forecast.called =>
        LET n == IF forecast.days < 1 THEN 1
                 ELSE IF forecast.days > 7 THEN 7 ELSE forecast.days
        IN  /\ Len(forecast.entries) = n
            /\ forecast.header_days = n
            /\ \A d \in 1..n :
                   /\ forecast.entries[d].day_name =
                        <<"Today", "Tomorrow", "Day 3", "Day 4", "Day 5", "Day 6",
                          "Day 7">>[d]
                   /\ forecast.entries[d].temp_low <= forecast.entries[d].temp_high - 5

\* a forecast asked for 30 days has 7 entries, one of them with the lowest
\* high (15) and the low 5 degrees below it
C24_Witness ==
    /\ forecast.called
    /\ forecast.days = 30
    /\ Len(forecast.entries) = 7
    /\ \E d \in 1..7 :
          forecast.entries[d].temp_high = 15 /\ forecast.entries[d].temp_low = 10

----------------------------------------------------------------------------
(* Claims about the model families (FamilySpec)                            *)

\* the family patterns, each with the vendor the claim gives it
FamilyPatterns ==
    {[family |-> "llama", pattern |-> <<"l", "l", "a", "m", "a">>, vendor |-> "Meta AI"],
     [family |-> "gpt-oss", pattern |-> <<"g", "p", "t", "-", "o", "s", "s">>,
      vendor |-> "OpenAI"],
     [family |-> "kimi", pattern |-> <<"k", "i", "m", "i">>, vendor |-> "Moonshot AI"],
     [family |-> "qwen", pattern |-> <<"q", "w", "e", "n">>, vendor |-> "Alibaba Group"]}

Occurring(selected_model) ==
    {f \in FamilyPatterns : Contains(f.pattern, chars(selected_model))}

\* C23: in every supported model identifier exactly one of the patterns
\* llama, gpt-oss, kimi, qwen occurs, and the base instruction built for it
\* names the model's own friendly name and the vendor of that family.
C23_FamilyDispatchUnambiguous ==
    /\ \A m \in SUPPORTED_MODELS : Cardinality(Occurring(m)) = 1
    /\ (program = "app2" /\ user_session.runnable.built
           /\ user_session.runnable.model \in SUPPORTED_MODELS) =>
          LET m == user_session.runnable.model
              base == user_session.runnable.system_prompt.base
          IN  \A f \in Occurring(m) :
                 /\ base.template = f.family
                 /\ base.vendor = f.vendor
                 /\ base.powered_by = friendly_name(m)
                 /\ base.powered_by.by = f.vendor

\* the pipeline was rebuilt for the kimi model by a settings update
C23_Witness ==
    /\ program = "app2"
    /\ notice = "settings_updated"
    /\ user_session.runnable.built
    /\ user_session.runnable.model = "moonshotai/kimi-k2-instruct"
    /\ user_session.runnable.system_prompt.base.vendor = "Moonshot AI"

----------------------------------------------------------------------------
(* Claims about failed turns (LongSpec)                                    *)

\* C25: when the model invocation raises during the stream, also after
\* fragments were forwarded, the stored history stays as it is, without the
\* human message and without partial ai content, and the prompt history a
\* next turn builds from it equals the one of the failed turn.
C25_FailedTurnKeepsHistory ==
    [][\A h \in LongHandlers :
         (handlers[h].pc = "streaming" /\ handlers'[h].outcome = "failed"
            /\ handlers'[h].pc = "idle") =>
           /\ user_session'.chat_messages = user_session.chat_messages
           /\ LastN(LastN(user_session'.chat_messages, 20), 20) =
                 handlers[h].prompt_history]_vars

\* a turn failed after a fragment was forwarded, with a full window stored
C25_Witness ==
    /\ handlers[1].outcome = "failed"
    /\ "partial" \in handlers[1].shown
    /\ Len(user_session.chat_messages) = 22

----------------------------------------------------------------------------
(* Claims about settings updates and the welcome message (ConfigSpec)      *)

\* a step of on_settings_update that changes something: the only handler of
\* a live session that touches neither a message handler nor the peer
SettingsStep ==
    /\ program = "app2"
    /\ lifecycle = "live" /\ lifecycle' = "live"
    /\ handlers' = handlers
    /\ peer_session' = peer_session
    /\ <<user_session, notice>>' # <<user_session, notice>>

\* C26: a settings update replaces the pipeline, the stored settings and
\* the stored welcome message and leaves the history and the first-message
\* flag as they are; without the credential it changes nothing of the
\* session.
C26_SettingsUpdateFrame ==
    [][SettingsStep =>
         IF api_key
         THEN /\ user_session'.chat_settings \in ConfigUpdates
              /\ LET settings == user_session'.chat_settings
                     runnable == user_session'.runnable
                     welcome == user_session'.welcome_message
                 IN  /\ runnable.built
                     /\ runnable.model = settings.model
                     /\ runnable.temperature = float(settings.temp)
                     /\ runnable.reasoning_level = settings.reasoning
                     /\ welcome.set
                     /\ welcome.model = settings.model
                     /\ welcome.temperature = float(settings.temp)
                     /\ welcome.reasoning_level = settings.reasoning
              /\ user_session'.chat_messages = user_session.chat_messages
              /\ user_session'.first_message = user_session.first_message
              /\ user_session'.chat_profile = user_session.chat_profile
         ELSE user_session' = user_session]_vars

\* the pipeline of the kimi model stands beside a stored turn and a cleared
\* first-message flag
C26_Witness ==
    /\ program = "app2"
    /\ notice = "settings_updated"
    /\ user_session.chat_settings.model = "moonshotai/kimi-k2-instruct"
    /\ user_session.runnable.model = "moonshotai/kimi-k2-instruct"
    /\ user_session.welcome_message.model = "moonshotai/kimi-k2-instruct"
    /\ Len(user_session.chat_messages) = 2
    /\ ~user_session.first_message

\* C27: in a session started through chat start the welcome message is sent
\* exactly once, on the first user message and before its response, never
\* on a later message, with the settings in force at that moment.  Each
\* slot shows what its last turn sent: two slots with a welcome message are
\* two welcome messages.
C27_WelcomeSentOnce ==
    program = "app2" =>
        Cardinality({h \in Handlers : "welcome" \in handlers[h].shown}) <= 1

\* C28: on_chat_resume fails on no metadata: also for a model identifier
\* outside the supported set or a temperature outside the enumerated ones
\* it builds the pipeline and sends the welcome-back message, and the
\* session can answer the next message.
C28_ResumeNeverFails ==
    program = "app2" =>
        /\ "on_chat_resume" \notin uncaught
        /\ notice = "welcome_back" => user_session.runnable.built

----------------------------------------------------------------------------
(* Claims about interleaved turns (Spec)                                   *)

\* the turn of slot h is saved while another slot is in a turn of its own
SavesBeside(h) ==
    /\ Saves(h)
    /\ \E g \in Handlers \ {h} : handlers[g].pc # "idle"

\* C29: when two message handlers of a session interleave at their await
\* points, the stored history is a list of intact pairs: each human entry
\* is followed at once by the complete ai response of its turn, and no
\* saved turn is missing from the list or in it twice.
C29_InterleavedPairsIntact ==
    /\ [](program \in HistoryApps =>
            LET hist == user_session.chat_messages
            IN  /\ Len(hist) % 2 = 0
                /\ \A k \in 1..(Len(hist) \div 2) :
                       /\ hist[2 * k - 1].type = "human"
                       /\ hist[2 * k - 1].content \in Questions
                       /\ hist[2 * k].type = "ai"
                       /\ hist[2 * k].content \in {Concat(st) : st \in Streams}
                /\ Cardinality({h \in Handlers : handlers[h].outcome = "saved"})
                      <= Len(hist) \div 2)
    /\ [][\A h \in Handlers :
            (program \in HistoryApps /\ SavesBeside(h)) =>
               user_session'.chat_messages =
                  user_session.chat_messages
                     \o <<[type |-> "human", content |-> handlers[h].question],
                          [type |-> "ai", content |-> handlers[h].content]>>]_vars

\* two turns that overlapped are stored as two pairs, each question beside
\* its own answer
C29_Witness ==
    /\ program \in HistoryApps
    /\ handlers[1].outcome = "saved" /\ handlers[2].outcome = "saved"
    /\ handlers[1].prior = {2}
    /\ user_session.chat_messages =
         <<[type |-> "human", content |-> "q1"], [type |-> "ai", content |-> "Hi"],
           [type |-> "human", content |-> "q2"],
           [type |-> "ai", content |-> "Hello world"]>>

----------------------------------------------------------------------------
(* Claims about the printing of the streaming search agents (StreamSpec)   *)

\* a run of the graph has ended without an exception and was printed
RunPrinted ==
    /\ program \in {"search_duckduckgo", "search_tavily"}
    /\ loop_pc = "input"
    /\ graph.node = "end"
    /\ graph.step > 0

\* C30: a turn that completes without an exception prints the answer: when
\* the run ends with a final ai message with non-empty content, exactly one
\* "Agent:" line with that content is printed (a content that is not blank,
\* to read the claim in its favour), and a placeholder
\* ("[No messages received]", "[No AI response found]") is printed only
\* when no ai message of the turn has a content.
C30_AnswerPrinted ==
    RunPrinted =>
        /\ graph.content \notin {"", " "} =>
              /\ printed.agent = 1
              /\ printed.answer = graph.content
              /\ printed.fallback = ""
        /\ printed.fallback # "" => ~graph.ai_content

====
